---- MODULE Spec2Model ----
(***************************************************************************)
(* Model of sharepoint.py: the six Microsoft Graph components              *)
(* (get_access_token, get_site_id, get_shared_documents_drive_id,          *)
(* list_folders_in_drive, create_folder, upload_pdf) running one at a      *)
(* time against a remote store, and the pure function get_network_link.    *)
(*                                                                         *)
(* A caller invokes one component at a time (the script is single-threaded *)
(* and every request blocks).  upload_pdf is split at its two blocking     *)
(* requests so that the order of the probe GET and the upload PUT is       *)
(* visible; the other components issue one request and are one step each,  *)
(* and a run calls them before its uploads (token, site, drive, folder,    *)
(* then the files).                                                        *)
(* upload_pdf is called with a file name that contains a '.', as its       *)
(* contract requires (line 149 splits the name, the parts are never used). *)
(***************************************************************************)
EXTENDS Integers, Sequences, FiniteSets, TLC

\* ------------------------------------------------------------------ bounds
\* Number of upload_pdf invocations against the same target path.
MaxCalls == 2
\* Number of pieces an input of get_network_link is assembled from.
MaxPieces == 3

\* ------------------------------------------------------- values of the model
\* Python's None.
None == "None"
\* The value the remote puts under the key a component reads
\* (access_token, id, webUrl, value[0].id).
Value(key) == "<" \o key \o ">"

\* Bodies of an HTTP response: not JSON at all (empty, HTML, ...), a JSON
\* object that lacks the key the component reads, a JSON object that has it.
NotJson == "not_json"
ObjectWithoutKey == "object_without_key"
ObjectWithKey == "object_with_key"
Bodies == {NotJson, ObjectWithoutKey, ObjectWithKey}

\* Status codes, one or two of each class the code tells apart.
Statuses == {200, 201, 304, 401, 404, 500}

\* What requests.get/post/put hands back: a response, or no response at all
\* because the call raised (connection error, timeout).
HttpResponse(s, b) == [kind |-> "http", status_code |-> s, body |-> b]
NetworkError == [kind |-> "error", status_code |-> 0, body |-> NotJson]
\* A name no response was assigned to yet.
Unbound == [kind |-> "unbound", status_code |-> 0, body |-> NotJson]

\* A 304 never carries content (RFC 9110, 15.4.5); every other status may
\* come with any body.
Responses ==
    {HttpResponse(s, b) : s \in Statuses \ {304}, b \in Bodies}
        \cup {HttpResponse(304, NotJson)} \cup {NetworkError}

\* The local file behind pdf_file_path: its bytes, or a file that cannot be
\* opened or read.
Unreadable == "unreadable"
Contents == {"bytes_A", "bytes_B"}
LocalFiles == Contents \cup {Unreadable}

\* What an invocation hands to its caller.
Return(v) == [kind |-> "return", value |-> v, exc |-> "none"]
Raise(e) == [kind |-> "raise", value |-> <<>>, exc |-> e]
NoRet == [kind |-> "none", value |-> <<>>, exc |-> "none"]

\* ----------------------------------------------------------- library calls
\* requests.Response.raise_for_status: raises HTTPError on 4xx and 5xx.
raise_for_status(r) == r.status_code >= 400 /\ r.status_code < 600

\* requests.Response.json raises when the body is not JSON.
json_raises(r) == r.body = NotJson

\* response.json().get(key): the value under the key, None when absent.
json_get(r, key) == IF r.body = ObjectWithKey THEN Value(key) ELSE None

\* ------------------------------------------------------------------- state
VARIABLES
    fn,                 \* the component invoked last ("none" before any)
    pc,                 \* upload_pdf: "idle", "probe" (GET in flight), "put" (PUT in flight)
    file_exists,        \* upload_pdf's loop variable
    response,           \* the response of the last GET/POST of the invocation
    upload_response,    \* upload_pdf: the PUT response, Unbound until assigned
    pdf_file,           \* upload_pdf: the local file behind pdf_file_path
    requests,           \* the remote requests the invocation has issued, in order
    ret,                \* what the invocation handed to its caller
    results,            \* per finished upload_pdf invocation: exit taken and ret
    store,              \* remote file at the target path: the contents written to it, oldest first
    sharepoint_link,    \* get_network_link: its argument
    network_path        \* get_network_link: its result once called

vars == <<fn, pc, file_exists, response, upload_response, pdf_file, requests,
          ret, results, store, sharepoint_link, network_path>>

linkVars == <<sharepoint_link, network_path>>
graphVars == <<fn, pc, file_exists, response, upload_response, pdf_file,
               requests, ret, results, store>>

\* ------------------------------------------------- the one-request components
\* get_access_token, lines 22-28: POST, raise_for_status, .json().get('access_token');
\* every exception is caught and turned into None.
get_access_token(r) ==
    IF r.kind = "error" \/ raise_for_status(r) \/ json_raises(r)
    THEN Return(None)
    ELSE Return(json_get(r, "access_token"))

\* get_site_id, lines 38-45.
get_site_id(r) ==
    IF r.kind = "error" \/ raise_for_status(r) \/ json_raises(r)
    THEN Return(None)
    ELSE Return(json_get(r, "id"))

\* get_shared_documents_drive_id, lines 55-65: .json() is called before
\* raise_for_status, and x['value'][0]['id'] raises KeyError on a body without
\* the key; all of it inside the try.
get_shared_documents_drive_id(r) ==
    IF r.kind = "error" \/ json_raises(r) \/ raise_for_status(r)
    THEN Return(None)
    ELSE IF r.body = ObjectWithoutKey
    THEN Return(None)
    ELSE Return(Value("id"))

\* list_folders_in_drive, lines 74-83: it has no return statement, so the
\* caller gets None whether the listing was saved to folders_data_value.json
\* or the except block printed the failure.
list_folders_in_drive(r) == Return(None)

CreateFolderIgnoresStatus(r) ==
    IF r.kind = "error" \/ json_raises(r)
    THEN Return(None)
    ELSE Return(json_get(r, "webUrl"))

\* create_folder, lines 121-128.
create_folder(r) ==
    IF r.kind = "error" \/ raise_for_status(r) \/ json_raises(r)
    THEN Return(None)
    ELSE Return(json_get(r, "webUrl"))

\* ----------------------------------------------------------------- upload_pdf
\* What an exit of upload_pdf is: the value handed back and the exit taken.
Exit(o, v) == [outcome |-> o, ret |-> v]
\* The probe let the loop end with file_exists = FALSE.
ToUpload == [outcome |-> "upload", ret |-> NoRet]

ProbeUploadsOn200(r) ==
    IF r.kind = "error"
    THEN Exit("Raised", Raise("ConnectionError"))
    ELSE IF r.status_code = 401
    THEN Exit("AuthExpired", Return(<<None, TRUE>>))
    ELSE ToUpload

\* Lines 153-165, the probe.  requests.get and response.json() are outside any
\* try: what they raise leaves upload_pdf.
probe(r) ==
    IF r.kind = "error"
    THEN Exit("Raised", Raise("ConnectionError"))
    ELSE IF r.status_code = 200
    THEN IF json_raises(r)
         THEN Exit("Raised", Raise("JSONDecodeError"))
         ELSE Exit("AlreadyExists", Return(<<json_get(r, "webUrl"), FALSE>>))
    ELSE IF r.status_code = 401
    THEN Exit("AuthExpired", Return(<<None, TRUE>>))
    ELSE ToUpload

ExceptIgnores401(ur) ==
    IF ur.kind = "unbound"
    THEN Exit("Raised", Raise("UnboundLocalError"))
    ELSE Exit("Failed", Return(<<None, FALSE>>))

ExceptAlwaysAuthExpired(ur) ==
    IF ur.kind = "unbound"
    THEN Exit("Raised", Raise("UnboundLocalError"))
    ELSE Exit("AuthExpired", Return(<<None, TRUE>>))

\* Lines 177-181, the except block.  It reads upload_response, which is bound
\* only if requests.put returned: otherwise the read raises UnboundLocalError
\* out of the handler.
upload_except(ur) ==
    IF ur.kind = "unbound"
    THEN Exit("Raised", Raise("UnboundLocalError"))
    ELSE IF ur.status_code = 401
    THEN Exit("AuthExpired", Return(<<None, TRUE>>))
    ELSE Exit("Failed", Return(<<None, FALSE>>))

\* Lines 172-176: the PUT came back with r (a response or a network error).
upload_try(r) ==
    IF r.kind = "error"
    THEN upload_except(Unbound)
    ELSE IF raise_for_status(r) \/ json_raises(r)
    THEN upload_except(r)
    ELSE Exit("Uploaded", Return(<<json_get(r, "webUrl"), FALSE>>))

\* ------------------------------------------------------------ the remote store
\* The metadata endpoint answers 200 only for a file that is there and 404 only
\* for one that is not; 201 answers a creation and 304 a conditional GET, which
\* the probe is not; any other answer can come at any time.
CanAnswerProbe(r) ==
    /\ r.status_code \notin {201, 304}
    /\ r.status_code = 200 => store # <<>>
    /\ r.status_code = 404 => store = <<>>

\* The content endpoint answers 201 when it created the file and 200 when it
\* replaced it.
CanAnswerPut(r) ==
    /\ r.status_code = 201 => store = <<>>
    /\ r.status_code = 200 => store # <<>>

\* PUT .../content writes the bytes to the target path when it answers 2xx.
StoreAfterPut(r, bytes) ==
    IF r.kind = "http" /\ r.status_code \in {200, 201}
    THEN Append(store, bytes)
    ELSE store

\* -------------------------------------------------------------- get_network_link
\* "https://nbcrna.sharepoint.com/sites/HistoricalTranscripts/Shared%20Documents/"
SharepointPrefix ==
  << "h", "t", "t", "p", "s", ":", "/", "/", "n", "b", "c", "r", "n", "a", ".", "s",
     "h", "a", "r", "e", "p", "o", "i", "n", "t", ".", "c", "o", "m", "/", "s", "i",
     "t", "e", "s", "/", "H", "i", "s", "t", "o", "r", "i", "c", "a", "l", "T", "r",
     "a", "n", "s", "c", "r", "i", "p", "t", "s", "/", "S", "h", "a", "r", "e", "d",
     "%", "2", "0", "D", "o", "c", "u", "m", "e", "n", "t", "s", "/" >>

\* "\\nbcrna-file1\transcripts$\"
NetworkPrefix ==
  << "\\", "\\", "n", "b", "c", "r", "n", "a", "-", "f", "i", "l", "e", "1", "\\", "t",
     "r", "a", "n", "s", "c", "r", "i", "p", "t", "s", "$", "\\" >>

\* s begins with p.
StartsWith(s, p) == Len(s) >= Len(p) /\ SubSeq(s, 1, Len(p)) = p

\* The places of s where old occurs.
Occurrences(s, old) ==
    {i \in 1..(Len(s) - Len(old) + 1) : SubSeq(s, i, i + Len(old) - 1) = old}

\* The least element of a non-empty set of numbers.
Min(S) == CHOOSE i \in S : \A j \in S : i <= j

\* str.replace(old, new): every non-overlapping occurrence of old, found left
\* to right, becomes new (old is not empty).
RECURSIVE str_replace(_, _, _)
str_replace(s, old, new) ==
    IF Occurrences(s, old) = {}
    THEN s
    ELSE LET i == Min(Occurrences(s, old))
         IN  SubSeq(s, 1, i - 1) \o new
                 \o str_replace(SubSeq(s, i + Len(old), Len(s)), old, new)

LinkKeepsSlashes(link) ==
    NetworkPrefix \o
        str_replace(str_replace(link, SharepointPrefix, <<>>), <<"%", "2", "0">>, <<" ">>)

LinkStripsLeadingPrefixOnly(link) ==
    NetworkPrefix \o
        str_replace(
            str_replace(
                IF StartsWith(link, SharepointPrefix)
                THEN SubSeq(link, Len(SharepointPrefix) + 1, Len(link))
                ELSE link,
                <<"%", "2", "0">>, <<" ">>),
            <<"/">>, <<"\\">>)

\* get_network_link, lines 183-195.
get_network_link(link) ==
    NetworkPrefix \o
        str_replace(
            str_replace(
                str_replace(link, SharepointPrefix, <<>>),
                <<"%", "2", "0">>, <<" ">>),
            <<"/">>, <<"\\">>)

\* ------------------------------------------------------------------- actions
GraphInit ==
    /\ fn = "none"
    /\ pc = "idle"
    /\ file_exists = FALSE
    /\ response = Unbound
    /\ upload_response = Unbound
    /\ pdf_file = Unreadable
    /\ requests = <<>>
    /\ ret = NoRet
    /\ results = <<>>
    /\ store = <<>>

Init ==
    /\ GraphInit
    /\ sharepoint_link = <<>>
    /\ network_path = <<>>

\* One invocation of a one-request component: the request, its answer r, the
\* value handed back.  The frame of the invocation before it is gone.  A run
\* resolves its token, site, drive and folder before it uploads.
OneRequest(name, method, r, result) ==
    /\ pc = "idle"
    /\ results = <<>>
    /\ fn' = name
    /\ requests' = <<method>>
    /\ response' = r
    /\ ret' = result
    /\ file_exists' = FALSE
    /\ upload_response' = Unbound
    /\ pdf_file' = Unreadable
    /\ UNCHANGED <<pc, results, store, linkVars>>

get_access_token_call ==
    \E r \in Responses :
        OneRequest("get_access_token", "POST", r, get_access_token(r))

get_site_id_call ==
    \E r \in Responses :
        OneRequest("get_site_id", "GET", r, get_site_id(r))

get_shared_documents_drive_id_call ==
    \E r \in Responses :
        OneRequest("get_shared_documents_drive_id", "GET", r,
                   get_shared_documents_drive_id(r))

list_folders_in_drive_call ==
    \E r \in Responses :
        OneRequest("list_folders_in_drive", "GET", r, list_folders_in_drive(r))

create_folder_call ==
    \E r \in Responses :
        OneRequest("create_folder", "POST", r, create_folder(r))

\* upload_pdf is entered (lines 144-155): file_exists = True and the probe GET
\* is sent.
upload_pdf_call ==
    \E file \in LocalFiles :
        /\ pc = "idle"
        /\ Len(results) < MaxCalls
        /\ fn' = "upload_pdf"
        /\ pc' = "probe"
        /\ file_exists' = TRUE
        /\ requests' = <<"GET">>
        /\ response' = Unbound
        /\ upload_response' = Unbound
        /\ pdf_file' = file
        /\ ret' = NoRet
        /\ UNCHANGED <<results, store, linkVars>>

\* upload_pdf leaves with exit e.
Leave(e) ==
    /\ pc' = "idle"
    /\ ret' = e.ret
    /\ results' = Append(results, e)

\* The probe GET comes back (lines 155-172): leave on 200, on 401 and on what
\* the probe raises; otherwise end the loop, open and read the local file and
\* send the PUT.  A file that cannot be read takes the except block with
\* upload_response unbound.
probe_answer ==
    \E r \in Responses :
        /\ pc = "probe"
        /\ CanAnswerProbe(r)
        /\ response' = r
        /\ IF probe(r) # ToUpload
           THEN /\ Leave(probe(r))
                /\ UNCHANGED <<file_exists, requests>>
           ELSE /\ file_exists' = FALSE
                /\ IF pdf_file = Unreadable
                   THEN /\ Leave(upload_except(upload_response))
                        /\ UNCHANGED requests
                   ELSE /\ pc' = "put"
                        /\ requests' = Append(requests, "PUT")
                        /\ UNCHANGED <<ret, results>>
        /\ UNCHANGED <<fn, upload_response, pdf_file, store, linkVars>>

\* The PUT comes back (lines 172-181).
put_answer ==
    \E r \in Responses :
        /\ pc = "put"
        /\ CanAnswerPut(r)
        /\ store' = StoreAfterPut(r, pdf_file)
        /\ upload_response' = IF r.kind = "error" THEN Unbound ELSE r
        /\ Leave(upload_try(r))
        /\ UNCHANGED <<fn, file_exists, response, pdf_file, requests, linkVars>>

Next ==
    \/ get_access_token_call
    \/ get_site_id_call
    \/ get_shared_documents_drive_id_call
    \/ list_folders_in_drive_call
    \/ create_folder_call
    \/ upload_pdf_call
    \/ probe_answer
    \/ put_answer

Spec == Init /\ [][Next]_vars

\* Every request is answered or fails: requests blocks until the transport
\* hands back a response or raises.
FairSpec == Spec /\ WF_vars(probe_answer) /\ WF_vars(put_answer)

\* ---- get_network_link on its own: the argument is drawn, then the call.
Pieces ==
    { SharepointPrefix,
      SubSeq(SharepointPrefix, 1, 36),
      <<"/">>, <<"%", "2", "0">>, <<"%", "2">>, <<"0">>, <<"a">> }

RECURSIVE Concats(_)
Concats(n) ==
    IF n = 0
    THEN {<<>>}
    ELSE Concats(n - 1) \cup {s \o p : s \in Concats(n - 1), p \in Pieces}

LinkInputs == Concats(MaxPieces)

NotCalled == <<"not called">>

LinkInit ==
    /\ GraphInit
    /\ sharepoint_link \in LinkInputs
    /\ network_path = NotCalled

get_network_link_call ==
    /\ network_path = NotCalled
    /\ network_path' = get_network_link(sharepoint_link)
    /\ UNCHANGED <<sharepoint_link, graphVars>>

LinkNext == get_network_link_call

LinkSpec == LinkInit /\ [][LinkNext]_vars

\* ==================================================================== claims
\* upload_pdf has handed its result to the caller.
UploadDone == fn = "upload_pdf" /\ pc = "idle"
\* A component has handed its result to the caller.
Done == fn # "none" /\ pc = "idle"
Is2xx(r) == r.kind = "http" /\ r.status_code >= 200 /\ r.status_code < 300
PutSent == Len(requests) = 2 /\ requests[2] = "PUT"

\* ---- C1.  When the probe GET answers 200, upload_pdf returns
\* (webUrl of the probe response, False) and sends no PUT.
C1_ProbeFoundReturnsUrl ==
    (UploadDone /\ response.kind = "http" /\ response.status_code = 200)
        => /\ ret = Return(<<json_get(response, "webUrl"), FALSE>>)
           /\ ~PutSent

\* ---- C2.  When the probe GET or the upload PUT answers 401, upload_pdf
\* returns (None, True), and no request follows the 401 in that invocation.
C2_AuthExpiryShortCircuit ==
    fn = "upload_pdf" =>
        /\ response.status_code = 401 => /\ requests = <<"GET">>
                                         /\ pc = "idle"
                                         /\ ret = Return(<<None, TRUE>>)
        /\ upload_response.status_code = 401 => /\ requests = <<"GET", "PUT">>
                                                /\ pc = "idle"
                                                /\ ret = Return(<<None, TRUE>>)

C2_Witness ==
    /\ UploadDone
    /\ upload_response.status_code = 401
    /\ ret = Return(<<None, TRUE>>)

UploadStepFailed ==
    \/ pdf_file = Unreadable
    \/ /\ PutSent
       /\ \/ upload_response.kind = "unbound"
          \/ /\ upload_response.kind = "http"
             /\ upload_response.status_code # 401
             /\ (~Is2xx(upload_response) \/ upload_response.body = NotJson)

\* ---- C4.  After a probe answer other than 200 and 401, every failure of the
\* upload step that is not a 401 (unreadable local file, network error on the
\* PUT, another non-2xx status, a body that is not JSON) returns (None, False).
C4_OtherFailureReturnsNoneFalse ==
    (/\ UploadDone
     /\ response.kind = "http"
     /\ response.status_code \notin {200, 401}
     /\ UploadStepFailed)
        => ret = Return(<<None, FALSE>>)

\* A network failure, or a non-2xx status other than 401.
TransportError(r) ==
    \/ r.kind = "error"
    \/ r.kind = "http" /\ ~Is2xx(r) /\ r.status_code # 401

\* The answer to the last request of the invocation (a PUT that raised left
\* upload_response unbound).
LastAnswer ==
    IF fn = "upload_pdf" /\ PutSent
    THEN IF upload_response.kind = "unbound" THEN NetworkError ELSE upload_response
    ELSE response

Sentinel == IF fn = "upload_pdf" THEN <<None, FALSE>> ELSE None

\* ---- C5.  No exception leaves a component: after a network failure or a
\* non-2xx status other than 401 on the request that ended the invocation, the
\* component has returned its failure sentinel instead of raising.  Stated for
\* invocations whose local file is readable, so that only the transport fails.
C5_NoExceptionEscapes ==
    (/\ Done
     /\ fn = "upload_pdf" => pdf_file # Unreadable
     /\ TransportError(LastAnswer))
        => ret = Return(Sentinel)

C7_NeverOverwrites == Len(store) <= 1

\* The requests of an invocation of upload_pdf: one GET, then at most one PUT,
\* sent only after a probe answer other than 200 and 401 ended the loop.
C10_ProbeThenPut ==
    fn = "upload_pdf" =>
        /\ requests \in {<<"GET">>, <<"GET", "PUT">>}
        /\ pc = "probe" => (requests = <<"GET">> /\ response = Unbound /\ file_exists)
        /\ PutSent => /\ response.kind = "http"
                      /\ response.status_code \notin {200, 401}
                      /\ ~file_exists

Called == network_path # NotCalled
SKIP == "<skip>"

\* The characters of s that pass the test, in order.
Kept(t) == SelectSeq(t, LAMBDA c : c # SKIP)

\* s read once, left to right: "%20" gives a space, "/" a backslash, every
\* other character itself.
Decoded(s) ==
    LET enc == Occurrences(s, <<"%", "2", "0">>)
    IN  Kept([i \in 1..Len(s) |->
                IF i \in enc THEN " "
                ELSE IF (i - 1) \in enc \/ (i - 2) \in enc THEN SKIP
                ELSE IF s[i] = "/" THEN "\\"
                ELSE s[i]])

\* s without the characters of any occurrence of the SharePoint prefix.
WithoutPrefixes(s) ==
    LET occ == Occurrences(s, SharepointPrefix)
    IN  Kept([i \in 1..Len(s) |->
                IF \E o \in occ : o <= i /\ i < o + Len(SharepointPrefix)
                THEN SKIP
                ELSE s[i]])

Remainder(s) == SubSeq(s, Len(SharepointPrefix) + 1, Len(s))
HasPrefix(s) == Occurrences(s, SharepointPrefix) # {}
Clean(s) == Occurrences(s, <<"/">>) = {} /\ Occurrences(s, <<"%", "2", "0">>) = {}

\* ---- C8, as stated.  For an input that does not contain the SharePoint
\* prefix, the result is the network prefix followed by the input unmodified.
C8_InputUnmodified ==
    (Called /\ ~HasPrefix(sharepoint_link))
        => network_path = NetworkPrefix \o sharepoint_link

\* ---- C8, amended.  For an input that does not contain the SharePoint prefix,
\* the result is the network prefix followed by the input with every "%20"
\* turned into a space and every "/" into a backslash.
C8_InputDecoded ==
    (Called /\ ~HasPrefix(sharepoint_link))
        => network_path = NetworkPrefix \o Decoded(sharepoint_link)

C8_Witness ==
    /\ Called
    /\ ~HasPrefix(sharepoint_link)
    /\ ~Clean(sharepoint_link)
    /\ network_path # NetworkPrefix \o sharepoint_link

\* ---- C9, as stated.  For a URL that starts with the SharePoint prefix, the
\* result is the network prefix followed by the rest of the URL with "%20" and
\* "/" replaced, and holds no "/" and no "%20".
C9_RestOfUrlDecoded ==
    (Called /\ StartsWith(sharepoint_link, SharepointPrefix))
        => /\ network_path = NetworkPrefix \o Decoded(Remainder(sharepoint_link))
           /\ Clean(network_path)

\* ---- C9, amended.  For a URL that starts with the SharePoint prefix, the
\* result is the network prefix followed by the rest of the URL with every
\* further occurrence of the SharePoint prefix removed and then "%20" and "/"
\* replaced; it holds no "/" and no "%20"; the call sends no request and
\* writes nothing.
C9_EveryPrefixRemoved ==
    /\ Called => requests = <<>> /\ store = <<>>
    /\ (Called /\ StartsWith(sharepoint_link, SharepointPrefix))
          => /\ network_path =
                    NetworkPrefix \o Decoded(WithoutPrefixes(sharepoint_link))
             /\ Clean(network_path)

C9_Witness ==
    /\ Called
    /\ StartsWith(sharepoint_link, SharepointPrefix)
    /\ ~Clean(Remainder(sharepoint_link))
    /\ ~HasPrefix(Remainder(sharepoint_link))
    /\ network_path = NetworkPrefix \o Decoded(Remainder(sharepoint_link))

====
